---- MODULE Spec2Model ----
(***************************************************************************)
(* Wallpaper visualizer: the interaction state machine of the Workspace    *)
(* canvas (calibration segment, wall polygon, tool mode), the quantity     *)
(* estimator of App, and the API key and rendering handlers of App with    *)
(* the renderWallpaper service they await, modelled from src/App.tsx, the  *)
(* Workspace component and the service module.                             *)
(*                                                                         *)
(* Images.  An image is named by its file; the image the service returns   *)
(* is named by the two images of the request it answers.                   *)
(*                                                                         *)
(* Numbers.  Normalised canvas coordinates are the fractions 0 and 1 (the  *)
(* edges of the canvas).  Lengths in cm are held in tenths of a cm, so the *)
(* preset 29.7 is 297.  The estimator's floating point arithmetic is       *)
(* modelled exactly (rationals and square roots compared by squaring); the *)
(* rounding error of IEEE doubles is not modelled.                         *)
(***************************************************************************)
EXTENDS Integers, Sequences, FiniteSets, TLC

VARIABLES
    state,            \* AppState (useState of App)
    mode,             \* ToolMode (useState of App)
    hasApiKey,        \* useState of App
    isAuthenticated,  \* useState of App
    imgObj,           \* loaded HTMLImageElement of Workspace, or NULL
    reads,            \* FileReader reads started and not yet completed
    requests,         \* renderWallpaper calls awaited by handleRender
    keyCheck,         \* the checkApiKey call of the mount effect
    keyDialog         \* openSelectKey calls awaited by handleOpenKeyDialog

vars == <<state, mode, hasApiKey, isAuthenticated, imgObj, reads,
          requests, keyCheck, keyDialog>>

\* null of a string-valued field (string | null)
NULL == "null"

\* null of an object-valued or number-valued field (Point | null, ...)
null == [null |-> TRUE]

\* ------------------------------------------------------------------ types

ToolMode == {"IDLE", "CALIBRATE", "SELECT_WALL"}

SwatchType == {"INDIVIDUAL", "PANORAMA"}

\* ------------------------------------------------------------------ bounds

\* Longest wall polygon the model draws.
MaxMask == 3

\* Most FileReader reads in flight at once.
MaxReads == 1

\* Most renderWallpaper calls in flight at once that the model follows.
MaxRequests == 2

\* Most openSelectKey dialogs awaited at once.
MaxDialogs == 1

\* Canvas positions a pointer-down can report: the corners of the canvas.
Point == [x : 0..1, y : 0..1]

\* Positions clicked in the interaction specification.
ClickPoints == {[x |-> 0, y |-> 0], [x |-> 1, y |-> 0], [x |-> 1, y |-> 1]}

\* Image files the user can pick.
Images == {"imgA"}

\* A second image file, picked in the rendering specification only.
OtherImages == {"imgB"}

\* What ai.models.generateContent does: it answers, with or without an image
\* part, or it throws an error with one of these messages.
UpstreamErrors == {"Requested entity was not found.", "fetch failed"}

Upstream ==
    {[inlineData |-> b] : b \in BOOLEAN} \cup {[error |-> m] : m \in UpstreamErrors}

\* Values typed into the scale input, in tenths of a cm ("" reads as 0).
ScaleInputs == {0, -50}

\* Values typed into the number inputs of the product specification.
RollWidthInputs == {0, 35}
DesignHeightInputs == {100}
IndividualWidthInputs == {0, 60}
LengthInputs == {1}

\* The three preset buttons: 29.7 cm, 210 cm, 80 cm, in tenths of a cm.
CalibrationPresets == {297, 2100, 800}

\* ------------------------------------------------------------ initial state

InitialState ==
    [ roomImage |-> NULL,
      swatchImage |-> NULL,
      swatchType |-> "INDIVIDUAL",
      panoramaSpecs |-> [rollWidthCm |-> 70, totalRolls |-> 7, designHeightCm |-> 325],
      individualRollSpecs |-> [widthCm |-> 53, lengthM |-> 10],
      calibration |-> [p1 |-> null, p2 |-> null, realWorldValueCm |-> 0],
      wallMask |-> <<>>,
      isRendering |-> FALSE,
      renderedResult |-> NULL,
      errorMessage |-> NULL ]

Init ==
    /\ state = InitialState
    /\ mode = "IDLE"
    /\ hasApiKey = FALSE
    /\ isAuthenticated = FALSE
    /\ imgObj = NULL
    /\ reads = {}
    /\ requests = <<>>
    /\ keyCheck = "pending"
    /\ keyDialog = 0

\* ------------------------------------------------------------------ login

\* The stored hash or the typed password matches PASSWORD_HASH.
authenticate ==
    /\ ~isAuthenticated
    /\ isAuthenticated' = TRUE
    /\ UNCHANGED <<state, mode, hasApiKey, imgObj, reads,
                 requests, keyCheck, keyDialog>>

\* ------------------------------------------------------------ file upload

\* handleFileUpload: a file is picked and a FileReader starts reading it.
handleFileUpload ==
    /\ isAuthenticated
    /\ Cardinality(reads) < MaxReads
    /\ \E type \in {"room", "swatch"}, file \in Images :
          /\ [type |-> type, data |-> file] \notin reads
          /\ reads' = reads \cup {[type |-> type, data |-> file]}
    /\ UNCHANGED <<state, mode, hasApiKey, isAuthenticated, imgObj,
                 requests, keyCheck, keyDialog>>

\* reader.onload: the image is stored and the rendered result is cleared.
readerOnload ==
    \E r \in reads :
       /\ reads' = reads \ {r}
       /\ state' = IF r.type = "room"
                     THEN [state EXCEPT !.roomImage = r.data, !.renderedResult = NULL]
                     ELSE [state EXCEPT !.swatchImage = r.data, !.renderedResult = NULL]
       /\ UNCHANGED <<mode, hasApiKey, isAuthenticated, imgObj,
                 requests, keyCheck, keyDialog>>

\* handleFileUpload for a file of the second set.
handleFileUploadOther ==
    /\ isAuthenticated
    /\ Cardinality(reads) < MaxReads
    /\ \E type \in {"room", "swatch"}, file \in OtherImages :
          /\ [type |-> type, data |-> file] \notin reads
          /\ reads' = reads \cup {[type |-> type, data |-> file]}
    /\ UNCHANGED <<state, mode, hasApiKey, isAuthenticated, imgObj,
                   requests, keyCheck, keyDialog>>

\* img.onload of the Workspace effect: the room image has been decoded.  The
\* Workspace is mounted only while no rendered result is shown.
imgOnload ==
    /\ state.roomImage # NULL
    /\ state.renderedResult = NULL
    /\ imgObj # state.roomImage
    /\ imgObj' = state.roomImage
    /\ UNCHANGED <<state, mode, hasApiKey, isAuthenticated, reads,
                 requests, keyCheck, keyDialog>>

\* ------------------------------------------------------------- tool mode

\* Mutant: the button only leaves IDLE, any active tool is switched off.
calibrationButtonMode_offFromAnyTool(m) == IF m = "IDLE" THEN "CALIBRATE" ELSE "IDLE"

\* The mode the "Set Calibration Line" button sets.
calibrationButtonMode(m) == IF m = "CALIBRATE" THEN "IDLE" ELSE "CALIBRATE"

\* The mode the "Draw Wall Guide" button sets.
wallButtonMode(m) == IF m = "SELECT_WALL" THEN "IDLE" ELSE "SELECT_WALL"

calibrationButton ==
    /\ isAuthenticated
    /\ mode' = calibrationButtonMode(mode)
    /\ UNCHANGED <<state, hasApiKey, isAuthenticated, imgObj, reads,
                 requests, keyCheck, keyDialog>>

wallButton ==
    /\ isAuthenticated
    /\ mode' = wallButtonMode(mode)
    /\ UNCHANGED <<state, hasApiKey, isAuthenticated, imgObj, reads,
                 requests, keyCheck, keyDialog>>

\* ------------------------------------------------------- scale of the segment

\* setCalibrationPreset(val)
setCalibrationPreset(val) ==
    /\ isAuthenticated
    /\ state' = [state EXCEPT !.calibration.realWorldValueCm = val]
    /\ UNCHANGED <<mode, hasApiKey, isAuthenticated, imgObj, reads,
                 requests, keyCheck, keyDialog>>

\* A click on one of the three preset buttons.
presetButton == \E val \in CalibrationPresets : setCalibrationPreset(val)

\* onChange of the scale input: realWorldValueCm = Number(e.target.value)
scaleInput(val) ==
    /\ isAuthenticated
    /\ state' = [state EXCEPT !.calibration.realWorldValueCm = val]
    /\ UNCHANGED <<mode, hasApiKey, isAuthenticated, imgObj, reads,
                 requests, keyCheck, keyDialog>>

scaleInputChange == \E val \in ScaleInputs : scaleInput(val)

\* ------------------------------------------------------------ pointer-down

\* Mutant: the test for a completed segment is dropped, so a third click moves
\* p2 instead of starting a new segment.
calibrationAfterClick_keepsSegment(calibration, pt) ==
    IF calibration.p1 = null
      THEN [calibration EXCEPT !.p1 = pt, !.p2 = null]
      ELSE [calibration EXCEPT !.p2 = pt]

\* Mutant: the two branches are swapped, so the first click sets p2.
calibrationAfterClick_swapped(calibration, pt) ==
    IF calibration.p1 = null \/ (calibration.p1 # null /\ calibration.p2 # null)
      THEN [calibration EXCEPT !.p2 = pt]
      ELSE [calibration EXCEPT !.p1 = pt, !.p2 = null]

\* Mutant: a new segment is built without the spread of the old calibration,
\* so realWorldValueCm falls back to 0.
calibrationAfterClick_dropsValue(calibration, pt) ==
    IF calibration.p1 = null \/ (calibration.p1 # null /\ calibration.p2 # null)
      THEN [p1 |-> pt, p2 |-> null, realWorldValueCm |-> 0]
      ELSE [calibration EXCEPT !.p2 = pt]

\* The calibration handed to onCalibrationUpdate by a click at pt.
calibrationAfterClick(calibration, pt) ==
    IF calibration.p1 = null \/ (calibration.p1 # null /\ calibration.p2 # null)
      THEN [calibration EXCEPT !.p1 = pt, !.p2 = null]
      ELSE [calibration EXCEPT !.p2 = pt]

\* Mutant: the clicked point is put first.
maskAfterClick_prepends(wallMask, pt) == <<pt>> \o wallMask

\* The polygon handed to onMaskUpdate by a click at pt.
maskAfterClick(wallMask, pt) == Append(wallMask, pt)

\* The canvas exists (a room image is shown and no rendered result hides the
\* Workspace) and the image has been decoded.
canvasReady ==
    /\ isAuthenticated
    /\ state.roomImage # NULL
    /\ state.renderedResult = NULL
    /\ imgObj # NULL

\* Mutant: the SELECT_WALL test is dropped, so a click in IDLE appends too.
pointerDown_idleDraws(pt) ==
    /\ canvasReady
    /\ \/ /\ mode = "CALIBRATE"
          /\ state' = [state EXCEPT
                         !.calibration = calibrationAfterClick(state.calibration, pt)]
       \/ /\ mode # "CALIBRATE"
          /\ Len(state.wallMask) < MaxMask
          /\ state' = [state EXCEPT !.wallMask = maskAfterClick(state.wallMask, pt)]
    /\ UNCHANGED <<mode, hasApiKey, isAuthenticated, imgObj, reads,
                 requests, keyCheck, keyDialog>>

\* handleMouseDown of the Workspace canvas for a pointer-down at pt, with the
\* App callbacks (onCalibrationUpdate, onMaskUpdate) it calls.
pointerDown(pt) ==
    /\ canvasReady
    /\ \/ /\ mode = "CALIBRATE"
          /\ state' = [state EXCEPT
                         !.calibration = calibrationAfterClick(state.calibration, pt)]
       \/ /\ mode = "SELECT_WALL"
          /\ Len(state.wallMask) < MaxMask
          /\ state' = [state EXCEPT !.wallMask = maskAfterClick(state.wallMask, pt)]
       \/ /\ mode = "IDLE"
          /\ state' = state
    /\ UNCHANGED <<mode, hasApiKey, isAuthenticated, imgObj, reads,
                 requests, keyCheck, keyDialog>>

handleMouseDown == \E pt \in ClickPoints : pointerDown(pt)

\* ------------------------------------------------------- product selector

\* The "Individual Roll" and "Panorama Mural" buttons.
selectSwatchType ==
    /\ isAuthenticated
    /\ \E t \in SwatchType : state' = [state EXCEPT !.swatchType = t]
    /\ UNCHANGED <<mode, hasApiKey, isAuthenticated, imgObj, reads,
                 requests, keyCheck, keyDialog>>

\* onChange of the panorama "Roll Width (cm)" input.
rollWidthChange ==
    /\ isAuthenticated
    /\ state.swatchType = "PANORAMA"
    /\ \E val \in RollWidthInputs :
          state' = [state EXCEPT !.panoramaSpecs.rollWidthCm = val]
    /\ UNCHANGED <<mode, hasApiKey, isAuthenticated, imgObj, reads,
                 requests, keyCheck, keyDialog>>

\* onChange of the panorama "Design Height (cm)" input.
designHeightChange ==
    /\ isAuthenticated
    /\ state.swatchType = "PANORAMA"
    /\ \E val \in DesignHeightInputs :
          state' = [state EXCEPT !.panoramaSpecs.designHeightCm = val]
    /\ UNCHANGED <<mode, hasApiKey, isAuthenticated, imgObj, reads,
                 requests, keyCheck, keyDialog>>

\* onChange of the individual "Roll Width (cm)" input.
individualWidthChange ==
    /\ isAuthenticated
    /\ state.swatchType = "INDIVIDUAL"
    /\ \E val \in IndividualWidthInputs :
          state' = [state EXCEPT !.individualRollSpecs.widthCm = val]
    /\ UNCHANGED <<mode, hasApiKey, isAuthenticated, imgObj, reads,
                 requests, keyCheck, keyDialog>>

\* onChange of the individual "Length (m)" input.
lengthChange ==
    /\ isAuthenticated
    /\ state.swatchType = "INDIVIDUAL"
    /\ \E val \in LengthInputs :
          state' = [state EXCEPT !.individualRollSpecs.lengthM = val]
    /\ UNCHANGED <<mode, hasApiKey, isAuthenticated, imgObj, reads,
                 requests, keyCheck, keyDialog>>

\* ---------------------------------------------------------------- API key

\* checkApiKey, called by the mount effect, gets its answer from
\* window.aistudio?.hasSelectedApiKey() and stores !!hasKey.
checkApiKeyResolves ==
    /\ keyCheck = "pending"
    /\ keyCheck' = "done"
    /\ \E hasKey \in BOOLEAN : hasApiKey' = hasKey
    /\ UNCHANGED <<state, mode, isAuthenticated, imgObj, reads, requests, keyDialog>>

\* handleOpenKeyDialog up to its await: the "Select API Key" button, shown while
\* hasApiKey is false, opens the dialog.
handleOpenKeyDialog ==
    /\ isAuthenticated
    /\ ~hasApiKey
    /\ keyDialog < MaxDialogs
    /\ keyDialog' = keyDialog + 1
    /\ UNCHANGED <<state, mode, hasApiKey, isAuthenticated, imgObj, reads,
                   requests, keyCheck>>

\* handleOpenKeyDialog after its await: openSelectKey has returned.
openSelectKeyResolves ==
    /\ keyDialog > 0
    /\ keyDialog' = keyDialog - 1
    /\ hasApiKey' = TRUE
    /\ UNCHANGED <<state, mode, isAuthenticated, imgObj, reads, requests, keyCheck>>

\* -------------------------------------------------------------- rendering

\* error.message.includes("Requested entity was not found")
includesNotFound(message) == message \in {"Requested entity was not found."}

\* The image the service composes from the two images of a request.
dataUrl(roomBase64, swatchBase64) ==
    "data:image/png;base64," \o roomBase64 \o "+" \o swatchBase64

\* renderWallpaper: how the promise settles for an API key that is set or
\* not in the environment and an outcome of generateContent.
renderWallpaper(roomBase64, swatchBase64, apiKey, upstream) ==
    IF ~apiKey
      THEN [ok |-> FALSE, message |-> "API Key is missing."]
    ELSE IF upstream = [inlineData |-> TRUE]
      THEN [ok |-> TRUE, value |-> dataUrl(roomBase64, swatchBase64)]
    ELSE IF upstream = [inlineData |-> FALSE]
      THEN [ok |-> FALSE, message |-> "No image data returned from AI."]
    ELSE IF includesNotFound(upstream.error)
      THEN [ok |-> FALSE, message |-> "KEY_RESET_REQUIRED"]
    ELSE [ok |-> FALSE, message |-> upstream.error]

KeyResetMessage == "API Key reset required. Please select your key again."

\* Mutant: the button stays enabled while a request is in flight.
renderButtonDisabled_ignoresRendering(s, key) ==
    s.roomImage = NULL \/ s.swatchImage = NULL \/ ~key

\* disabled attribute of the "Apply Visualization" button.
renderButtonDisabled(s, key) ==
    s.isRendering \/ s.roomImage = NULL \/ s.swatchImage = NULL \/ ~key

\* Mutant: the last error message is left standing while rendering.
startState_keepsError(prev) == [prev EXCEPT !.isRendering = TRUE]

\* setState of handleRender before the call.
startState(prev) == [prev EXCEPT !.isRendering = TRUE, !.errorMessage = NULL]

\* setState of handleRender after the call returned result.
thenState(prev, result) ==
    [prev EXCEPT !.renderedResult = result, !.isRendering = FALSE]

\* Mutant: the state is rebuilt from the images instead of spread from prev.
catchState_dropsPrev(prev, message) ==
    [InitialState EXCEPT !.roomImage = prev.roomImage,
                         !.swatchImage = prev.swatchImage,
                         !.renderedResult = prev.renderedResult,
                         !.errorMessage = IF message = "KEY_RESET_REQUIRED"
                                            THEN KeyResetMessage ELSE message]

\* setState of the catch block of handleRender for an error with message.
catchState(prev, message) ==
    [prev EXCEPT !.isRendering = FALSE,
                 !.errorMessage = IF message = "KEY_RESET_REQUIRED"
                                    THEN KeyResetMessage ELSE message]

\* handleRender up to its await: a click on the enabled button; the request
\* carries the images of the state the click saw, and renderWallpaper reads
\* process.env.API_KEY as it starts.
handleRender ==
    /\ isAuthenticated
    /\ ~renderButtonDisabled(state, hasApiKey)
    /\ ~(state.roomImage = NULL \/ state.swatchImage = NULL)
    /\ Len(requests) < MaxRequests
    /\ \E apiKey \in BOOLEAN :
          requests' = Append(requests, [roomImage |-> state.roomImage,
                                        swatchImage |-> state.swatchImage,
                                        apiKey |-> apiKey])
    /\ state' = startState(state)
    /\ UNCHANGED <<mode, hasApiKey, isAuthenticated, imgObj, reads, keyCheck, keyDialog>>

\* How request i settles when generateContent does upstream.
settlement(i, upstream) ==
    renderWallpaper(requests[i].roomImage, requests[i].swatchImage,
                    requests[i].apiKey, upstream)

\* requests without its element i.
without(i) == SubSeq(requests, 1, i - 1) \o SubSeq(requests, i + 1, Len(requests))

\* handleRender after its await, for request i fulfilled: the result is stored.
\* The rendered image replaces the Workspace, whose imgObj is lost with it.
renderFulfilled(i, upstream) ==
    /\ i \in 1..Len(requests)
    /\ settlement(i, upstream).ok
    /\ requests' = without(i)
    /\ state' = thenState(state, settlement(i, upstream).value)
    /\ imgObj' = NULL
    /\ UNCHANGED <<mode, hasApiKey, isAuthenticated, reads, keyCheck, keyDialog>>

\* The catch block of handleRender, for request i rejected.
renderRejected(i, upstream) ==
    /\ i \in 1..Len(requests)
    /\ ~settlement(i, upstream).ok
    /\ requests' = without(i)
    /\ state' = catchState(state, settlement(i, upstream).message)
    /\ hasApiKey' = IF settlement(i, upstream).message = "KEY_RESET_REQUIRED"
                      THEN FALSE ELSE hasApiKey
    /\ UNCHANGED <<mode, isAuthenticated, imgObj, reads, keyCheck, keyDialog>>

handleRenderThen ==
    \E i \in 1..MaxRequests, upstream \in Upstream : renderFulfilled(i, upstream)

handleRenderCatch ==
    \E i \in 1..MaxRequests, upstream \in Upstream : renderRejected(i, upstream)

\* The "Adjust Settings" button over the rendered image.
adjustSettings ==
    /\ isAuthenticated
    /\ state.renderedResult # NULL
    /\ state' = [state EXCEPT !.renderedResult = NULL]
    /\ UNCHANGED <<mode, hasApiKey, isAuthenticated, imgObj, reads,
                   requests, keyCheck, keyDialog>>

\* ------------------------------------------------------------ JS numbers

\* A result of Math.ceil: an integer, or one of the non-finite doubles.
Finite(k) == [kind |-> "int", n |-> k]
Infinity == [kind |-> "Infinity", n |-> 0]
NegInfinity == [kind |-> "-Infinity", n |-> 0]
NaN == [kind |-> "NaN", n |-> 0]

Abs(n) == IF n < 0 THEN -n ELSE n

Sign(n) == IF n < 0 THEN -1 ELSE IF n > 0 THEN 1 ELSE 0

\* ceil(n / d) of integers, d # 0.
CeilDiv(n, d) == IF d > 0 THEN -((-n) \div d) ELSE -(n \div (-d))

\* Least k in lo..hi with k*k*c >= a2 (one exists: hi).
RECURSIVE LeastSquare(_, _, _, _)
LeastSquare(lo, hi, a2, c) ==
    IF lo >= hi THEN hi
    ELSE LET mid == (lo + hi) \div 2
         IN  IF mid * mid * c >= a2
               THEN LeastSquare(lo, mid, a2, c)
               ELSE LeastSquare(mid + 1, hi, a2, c)

\* Math.ceil(n / (d * sqrt(root))) for integers n, d and root >= 0, as a double
\* computes it: division by zero gives an infinity, 0/0 gives NaN.
CeilSurd(n, d, root) ==
    IF d = 0 \/ root = 0
      THEN IF n = 0 THEN NaN
           ELSE IF (n > 0) = (d >= 0) THEN Infinity ELSE NegInfinity
    ELSE IF n = 0 THEN Finite(0)
    ELSE LET a == Abs(n)
             b == Abs(d)
             up == LeastSquare(0, (a \div b) + 1, a * a, b * b * root)
         IN  IF Sign(n) = Sign(d)
               THEN Finite(up)
               ELSE IF up * up * b * b * root = a * a THEN Finite(-up) ELSE Finite(1 - up)

\* Math.ceil((n / d) / k) for integers n >= 0, d > 0 and k # 0.  Computed as
\* ceil(ceil(n/d) / k), which is the same number for an integer k > 0 (and
\* with floors for k < 0) and keeps the products within TLC's integers.
CeilRatioOver(n, d, k) ==
    IF k > 0 THEN CeilDiv(CeilDiv(n, d), k)
    ELSE -((n \div d) \div (-k))

\* n1/d1 <= n2/d2 for n1, n2 >= 0 and d1, d2 > 0, by Euclid's algorithm (no
\* cross product, which would leave TLC's integers).
RECURSIVE RatLeq(_, _, _, _)
RatLeq(n1, d1, n2, d2) ==
    IF n1 \div d1 # n2 \div d2 THEN n1 \div d1 < n2 \div d2
    ELSE IF n1 % d1 = 0 THEN TRUE
    ELSE IF n2 % d2 = 0 THEN FALSE
    ELSE RatLeq(d2, n2 % d2, d1, n1 % d1)

\* -------------------------------------------------------------- estimator

\* Squared distance between two points, in squared normalised units.
distSq(p, q) == (p.x - q.x) * (p.x - q.x) + (p.y - q.y) * (p.y - q.y)

\* pixelsPerCm memo: null, or the number sqrt(distSq) / (perTenths / 10).
pixelsPerCm(calibration) ==
    IF calibration.p1 = null \/ calibration.p2 = null
         \/ calibration.realWorldValueCm = 0
      THEN null
      ELSE [distSq |-> distSq(calibration.p1, calibration.p2),
            perTenths |-> calibration.realWorldValueCm]

\* Mutant: only null is tested for (pixelsPerCm === null).
falsy_nullOnly(ppc) == ppc = null

\* !pixelsPerCm: null, or a number that is 0 (or -0).
falsy(ppc) == ppc = null \/ ppc.distSq = 0

\* Mutant: the loop pairs each vertex with the next one only, the last vertex
\* is not joined to the first.
RECURSIVE shoelaceSum_open(_, _)
shoelaceSum_open(wallMask, i) ==
    IF i >= Len(wallMask) THEN 0
    ELSE wallMask[i].x * wallMask[i + 1].y - wallMask[i + 1].x * wallMask[i].y
           + shoelaceSum_open(wallMask, i + 1)

\* Twice the signed shoelace sum of the closed polygon.
RECURSIVE shoelaceSum(_, _)
shoelaceSum(wallMask, i) ==
    IF i > Len(wallMask) THEN 0
    ELSE LET j == (i % Len(wallMask)) + 1
         IN  wallMask[i].x * wallMask[j].y - wallMask[j].x * wallMask[i].y
               + shoelaceSum(wallMask, i + 1)

\* areaNormalized = Math.abs(areaNormalized) / 2, as the fraction num / den.
areaNormalized(wallMask) == [num |-> Abs(shoelaceSum(wallMask, 1)), den |-> 2]

\* Math.min / Math.max over the mapped coordinates.
MinOf(S) == CHOOSE v \in S : \A e \in S : v <= e

MaxOf(S) == CHOOSE v \in S : \A e \in S : v >= e

xs(wallMask) == {wallMask[i].x : i \in 1..Len(wallMask)}
ys(wallMask) == {wallMask[i].y : i \in 1..Len(wallMask)}

\* areaM2 = areaNormalized * cmPerNormalizedUnit^2 / 10000 as a fraction:
\* (sum/2) * (v/10)^2 / distSq / 10000.
areaM2Of(calibration, wallMask) ==
    [num |-> Abs(shoelaceSum(wallMask, 1))
               * calibration.realWorldValueCm * calibration.realWorldValueCm,
     den |-> 2000000 * distSq(calibration.p1, calibration.p2)]

\* widthCm = (maxX - minX) * cmPerNormalizedUnit, the number
\* num / (10 * sqrt(root)).
widthCmOf(calibration, wallMask) ==
    [num |-> (MaxOf(xs(wallMask)) - MinOf(xs(wallMask))) * calibration.realWorldValueCm,
     root |-> distSq(calibration.p1, calibration.p2)]

heightCmOf(calibration, wallMask) ==
    [num |-> (MaxOf(ys(wallMask)) - MinOf(ys(wallMask))) * calibration.realWorldValueCm,
     root |-> distSq(calibration.p1, calibration.p2)]

\* requiredRolls of the PANORAMA branch: Math.ceil(widthCm / rollWidthCm).
panoramaRolls(widthCm, panoramaSpecs) ==
    CeilSurd(widthCm.num, 10 * panoramaSpecs.rollWidthCm, widthCm.root)

\* Mutant: Math.floor instead of Math.ceil.
individualRolls_floor(areaM2, individualRollSpecs) ==
    LET k == individualRollSpecs.widthCm * individualRollSpecs.lengthM
    IN  IF areaM2.den = 0 \/ k = 0 THEN NaN
        ELSE Finite(((110 * areaM2.num) \div areaM2.den) \div k)

\* requiredRolls of the INDIVIDUAL branch:
\* Math.ceil((areaM2 * 1.1) / ((widthCm / 100) * lengthM)).  A roll area of 0
\* gives an infinity (NaN for an area of 0), as the double division does.
individualRolls(areaM2, individualRollSpecs) ==
    LET k == individualRollSpecs.widthCm * individualRollSpecs.lengthM
        negZero == \/ individualRollSpecs.widthCm < 0 /\ individualRollSpecs.lengthM = 0
                   \/ individualRollSpecs.widthCm = 0 /\ individualRollSpecs.lengthM < 0
    IN  IF areaM2.den = 0
          THEN IF areaM2.num = 0 THEN NaN
               ELSE IF k < 0 \/ negZero THEN NegInfinity ELSE Infinity
        ELSE IF k = 0
          THEN IF areaM2.num = 0 THEN NaN
               ELSE IF negZero THEN NegInfinity ELSE Infinity
        ELSE Finite(CeilRatioOver(110 * areaM2.num, areaM2.den, k))

\* Mutant: the PANORAMA branch divides the height of the wall, not its width.
estimateProject_rollsFromHeight(s) ==
    IF falsy(pixelsPerCm(s.calibration)) \/ Len(s.wallMask) < 3
      THEN null
      ELSE LET areaM2 == areaM2Of(s.calibration, s.wallMask)
               widthCm == widthCmOf(s.calibration, s.wallMask)
               heightCm == heightCmOf(s.calibration, s.wallMask)
           IN  [areaM2 |-> areaM2,
                widthCm |-> widthCm,
                heightCm |-> heightCm,
                rolls |-> IF s.swatchType = "PANORAMA"
                            THEN panoramaRolls(heightCm, s.panoramaSpecs)
                            ELSE individualRolls(areaM2, s.individualRollSpecs)]

\* estimateProject memo of a state s of App.
estimateProject(s) ==
    IF falsy(pixelsPerCm(s.calibration)) \/ Len(s.wallMask) < 3
      THEN null
      ELSE LET areaM2 == areaM2Of(s.calibration, s.wallMask)
               widthCm == widthCmOf(s.calibration, s.wallMask)
               heightCm == heightCmOf(s.calibration, s.wallMask)
           IN  [areaM2 |-> areaM2,
                widthCm |-> widthCm,
                heightCm |-> heightCm,
                rolls |-> IF s.swatchType = "PANORAMA"
                            THEN panoramaRolls(widthCm, s.panoramaSpecs)
                            ELSE individualRolls(areaM2, s.individualRollSpecs)]

\* ------------------------------------------------------------ specification

Next ==
    \/ authenticate
    \/ handleFileUpload
    \/ readerOnload
    \/ imgOnload
    \/ calibrationButton
    \/ wallButton
    \/ presetButton
    \/ scaleInputChange
    \/ handleMouseDown

Spec == Init /\ [][Next]_vars

\* The estimator over drawn geometry: the user is logged in, a room image is
\* loaded, a calibration segment and a wall polygon have been clicked and the
\* tool is back in IDLE; then the numeric inputs and the product selector act.
EstCalibrations ==
    {[p1 |-> null, p2 |-> null, realWorldValueCm |-> 0]}
      \cup {[p1 |-> [x |-> 0, y |-> 0], p2 |-> q, realWorldValueCm |-> 0] :
              q \in {null, [x |-> 0, y |-> 0], [x |-> 1, y |-> 0], [x |-> 1, y |-> 1]}}

\* The four corners of the canvas, clockwise from the top left.
UnitSquare ==
    <<[x |-> 0, y |-> 0], [x |-> 1, y |-> 0], [x |-> 1, y |-> 1], [x |-> 0, y |-> 1]>>

\* Every polygon of up to MaxMask corners, and the unit square.
Masks == UNION {[1..n -> Point] : n \in 0..MaxMask} \cup {UnitSquare}

InitEst ==
    /\ \E c \in EstCalibrations, m \in Masks :
          state = [InitialState EXCEPT !.roomImage = "imgA", !.calibration = c,
                                       !.wallMask = m]
    /\ mode = "IDLE"
    /\ hasApiKey = FALSE
    /\ isAuthenticated = TRUE
    /\ imgObj = "imgA"
    /\ reads = {}
    /\ requests = <<>>
    /\ keyCheck = "pending"
    /\ keyDialog = 0

NextEst ==
    \/ presetButton
    \/ scaleInputChange
    \/ selectSwatchType
    \/ rollWidthChange
    \/ designHeightChange
    \/ individualWidthChange
    \/ lengthChange

SpecEst == InitEst /\ [][NextEst]_vars

\* Rendering: the user is logged in, has loaded a room image, drawn a scale
\* segment of 210 cm and a wall polygon and left the wall tool on; the answer
\* to checkApiKey is still awaited.  Then images are picked, the key dialog
\* is used and visualizations are requested.
InitRender ==
    /\ state = [InitialState EXCEPT
                  !.roomImage = "imgA",
                  !.calibration = [p1 |-> [x |-> 0, y |-> 0], p2 |-> [x |-> 1, y |-> 0],
                                   realWorldValueCm |-> 2100],
                  !.wallMask = <<[x |-> 0, y |-> 0], [x |-> 1, y |-> 0], [x |-> 1, y |-> 1]>>]
    /\ mode = "SELECT_WALL"
    /\ hasApiKey = FALSE
    /\ isAuthenticated = TRUE
    /\ imgObj = "imgA"
    /\ reads = {}
    /\ requests = <<>>
    /\ keyCheck = "pending"
    /\ keyDialog = 0

NextRender ==
    \/ handleFileUpload
    \/ handleFileUploadOther
    \/ readerOnload
    \/ imgOnload
    \/ selectSwatchType
    \/ checkApiKeyResolves
    \/ handleOpenKeyDialog
    \/ openSelectKeyResolves
    \/ handleRender
    \/ handleRenderThen
    \/ handleRenderCatch
    \/ adjustSettings

SpecRender == InitRender /\ [][NextRender]_vars

\* The service answers or throws in the end.
SpecRenderFair == SpecRender /\ WF_vars(handleRenderThen \/ handleRenderCatch)


\* ------------------------------------------------------------------ claims

calibration == state.calibration
wallMask == state.wallMask

\* s is a prefix of t.
IsPrefix(s, t) == Len(s) <= Len(t) /\ SubSeq(t, 1, Len(s)) = s

\* C1: a pointer-down at c in CALIBRATE mode starts a new segment (p1 = c,
\* p2 = null) when p1 is null or both points are set, and otherwise keeps p1
\* and sets p2 = c.
C1_CalibrateClick ==
    [][\A c \in ClickPoints :
         pointerDown(c) /\ mode = "CALIBRATE" =>
           IF calibration.p1 = null \/ (calibration.p1 # null /\ calibration.p2 # null)
             THEN state'.calibration.p1 = c /\ state'.calibration.p2 = null
             ELSE state'.calibration.p1 = calibration.p1 /\ state'.calibration.p2 = c
      ]_vars

\* A completed segment of two distinct points stands in CALIBRATE mode: the
\* next click discards it.
C1_Witness ==
    /\ mode = "CALIBRATE"
    /\ canvasReady
    /\ calibration.p1 # null /\ calibration.p2 # null
    /\ calibration.p1 # calibration.p2

\* C2: in every reachable state p2 is non-null only if p1 is non-null.
C2_P1BeforeP2 == calibration.p2 # null => calibration.p1 # null

C2_Witness == calibration.p2 # null /\ calibration.realWorldValueCm # 0

\* C3: a pointer-down at c in SELECT_WALL mode appends exactly c to wallMask,
\* and every step of the program leaves the old wallMask a prefix of the new.
C3_MaskAppendOnly ==
    [][/\ \A c \in ClickPoints :
            pointerDown(c) /\ mode = "SELECT_WALL" =>
              state'.wallMask = Append(wallMask, c)
       /\ IsPrefix(wallMask, state'.wallMask)
      ]_vars

\* A polygon of three clicked points, not all the same.
C3_Witness ==
    /\ Len(wallMask) >= 3
    /\ wallMask[1] # wallMask[2]
    /\ wallMask[2] # wallMask[3]

\* C4: a pointer-down never changes the mode; in IDLE it changes neither the
\* calibration nor wallMask, in CALIBRATE not wallMask, in SELECT_WALL not the
\* calibration.
C4_ClickFrame ==
    [][handleMouseDown =>
         /\ mode' = mode
         /\ mode = "IDLE" =>
              state'.calibration = calibration /\ state'.wallMask = wallMask
         /\ mode = "CALIBRATE" => state'.wallMask = wallMask
         /\ mode = "SELECT_WALL" => state'.calibration = calibration
      ]_vars

\* The canvas takes clicks in IDLE mode while a segment and a polygon exist.
C4_Witness ==
    /\ canvasReady
    /\ mode = "IDLE"
    /\ calibration.p2 # null
    /\ Len(wallMask) >= 1

\* C5 as stated: the mode is one of the three, each button toggles its own
\* mode, a second press of the same button always ends in IDLE, and no press
\* alters the calibration or wallMask.
C5_Original ==
    [][/\ mode' \in ToolMode
       /\ calibrationButton =>
            /\ mode' = (IF mode = "CALIBRATE" THEN "IDLE" ELSE "CALIBRATE")
            /\ calibrationButtonMode(mode') = "IDLE"
       /\ wallButton =>
            /\ mode' = (IF mode = "SELECT_WALL" THEN "IDLE" ELSE "SELECT_WALL")
            /\ wallButtonMode(mode') = "IDLE"
       /\ mode' # mode =>
            state'.calibration = calibration /\ state'.wallMask = wallMask
      ]_vars

\* C5 amended: as C5_Original, but a second press of the same button ends in
\* IDLE only when the button's own mode was not active before the first
\* press; when it was, the second press ends in that mode again.
C5_ModeToggle ==
    [][/\ mode' \in ToolMode
       /\ calibrationButton =>
            /\ mode' = (IF mode = "CALIBRATE" THEN "IDLE" ELSE "CALIBRATE")
            /\ calibrationButtonMode(mode')
                 = (IF mode = "CALIBRATE" THEN "CALIBRATE" ELSE "IDLE")
       /\ wallButton =>
            /\ mode' = (IF mode = "SELECT_WALL" THEN "IDLE" ELSE "SELECT_WALL")
            /\ wallButtonMode(mode')
                 = (IF mode = "SELECT_WALL" THEN "SELECT_WALL" ELSE "IDLE")
       /\ mode' # mode =>
            state'.calibration = calibration /\ state'.wallMask = wallMask
      ]_vars

\* The wall tool is active over a started segment and a started polygon: both
\* buttons have been pressed.
C5_Witness ==
    /\ mode = "SELECT_WALL"
    /\ calibration.p1 # null
    /\ Len(wallMask) >= 1

\* C6: the estimator yields null when p1 or p2 is null, when p1 = p2, or when
\* wallMask has fewer than 3 points; a result never holds a non-finite area;
\* and there is a result when p1 # p2 are set, realWorldValueCm > 0 and
\* wallMask has at least 3 points.
C6_EstimatePreconditions ==
    LET e == estimateProject(state)
        degenerate == \/ calibration.p1 = null
                      \/ calibration.p2 = null
                      \/ calibration.p1 = calibration.p2
                      \/ Len(wallMask) < 3
    IN  /\ degenerate => e = null
        /\ e # null => e.areaM2.den # 0
        /\ (~degenerate /\ calibration.realWorldValueCm > 0) => e # null

\* Both calibration clicks hit the same point, a positive length is entered
\* and the polygon has three points.
C6_Witness ==
    /\ calibration.p1 # null
    /\ calibration.p1 = calibration.p2
    /\ calibration.realWorldValueCm > 0
    /\ Len(wallMask) >= 3

\* C7: no estimate is produced whenever realWorldValueCm <= 0.
C7_NoEstimateForNonPositiveLength ==
    calibration.realWorldValueCm <= 0 => estimateProject(state) = null

\* C8: no pointer-down changes realWorldValueCm; a preset click or a scale
\* input edit sets it to the given value and leaves p1, p2, wallMask and the
\* mode unchanged.
C8_LengthIndependent ==
    [][/\ handleMouseDown =>
            state'.calibration.realWorldValueCm = calibration.realWorldValueCm
       /\ \A val \in CalibrationPresets \cup ScaleInputs :
            (setCalibrationPreset(val) \/ scaleInput(val)) =>
              /\ state'.calibration.realWorldValueCm = val
              /\ state'.calibration.p1 = calibration.p1
              /\ state'.calibration.p2 = calibration.p2
              /\ state'.wallMask = wallMask
              /\ mode' = mode
      ]_vars

\* A preset length stands while a new segment has just been started over a
\* polygon: the click that started it kept the length.
C8_Witness ==
    /\ calibration.realWorldValueCm = 297
    /\ calibration.p1 # null /\ calibration.p2 = null
    /\ Len(wallMask) >= 1
    /\ mode = "CALIBRATE"

\* Every value realWorldValueCm takes in the model.
Lengths == {0} \cup CalibrationPresets \cup ScaleInputs

\* Polygons a state is compared with: every triangle drawn from the top left
\* corner, and the unit square.
VariantMasks ==
    {<<[x |-> 0, y |-> 0], p, q>> : p \in Point, q \in Point}
      \cup {<<[x |-> 0, y |-> 0], [x |-> 1, y |-> 0], [x |-> 1, y |-> 1], [x |-> 0, y |-> 1]>>}

\* Horizontal extent of a polygon, in normalised units.
extentX(m) == MaxOf(xs(m)) - MinOf(xs(m))

\* Two calibrations give the same scale factor realWorldValueCm / distance.
SameScale(c1, c2) ==
    /\ c1.p1 # null /\ c1.p2 # null /\ c2.p1 # null /\ c2.p2 # null
    /\ Sign(c1.realWorldValueCm) = Sign(c2.realWorldValueCm)
    /\ c1.realWorldValueCm * c1.realWorldValueCm * distSq(c2.p1, c2.p2)
         = c2.realWorldValueCm * c2.realWorldValueCm * distSq(c1.p1, c1.p2)

\* C9: with swatchType = PANORAMA, rollsRequired = ceil(widthCm / rollWidthCm),
\* and it is the same in any state that agrees on the horizontal extent of the
\* wall, the scale factor and rollWidthCm, whatever its polygon, calibration
\* points, designHeightCm or individual roll specification.
C9_PanoramaRolls ==
    LET e == estimateProject(state)
    IN  (state.swatchType = "PANORAMA" /\ e # null) =>
          /\ e.rolls = CeilSurd(extentX(wallMask) * calibration.realWorldValueCm,
                                10 * state.panoramaSpecs.rollWidthCm,
                                distSq(calibration.p1, calibration.p2))
          /\ \A m \in VariantMasks :
               extentX(m) = extentX(wallMask) =>
                 estimateProject([state EXCEPT !.wallMask = m]).rolls = e.rolls
          /\ \A h \in {325} \cup DesignHeightInputs :
               estimateProject([state EXCEPT !.panoramaSpecs.designHeightCm = h]).rolls
                 = e.rolls
          /\ \A p \in Point, q \in Point :
               LET c == [calibration EXCEPT !.p1 = p, !.p2 = q]
               IN  SameScale(c, calibration) =>
                     estimateProject([state EXCEPT !.calibration = c]).rolls = e.rolls
          /\ \A w \in {53} \cup IndividualWidthInputs, l \in {10} \cup LengthInputs :
               estimateProject([state EXCEPT !.individualRollSpecs =
                                  [widthCm |-> w, lengthM |-> l]]).rolls = e.rolls

\* A panorama estimate of several rolls, for a polygon with a vertical extent,
\* after the design height was edited.
C9_Witness ==
    LET e == estimateProject(state)
    IN  /\ state.swatchType = "PANORAMA"
        /\ e # null
        /\ e.rolls.kind = "int" /\ e.rolls.n >= 2
        /\ e.heightCm.num # 0
        /\ state.panoramaSpecs.designHeightCm # 325

\* C10: with swatchType = INDIVIDUAL and a roll area (widthCm/100) * lengthM
\* > 0, rollsRequired = ceil(areaM2 * 1.10 / rollAreaM2), which is at least
\* ceil(areaM2 / rollAreaM2) and does not decrease when areaM2 grows.
C10_IndividualRolls ==
    LET e == estimateProject(state)
        k == state.individualRollSpecs.widthCm * state.individualRollSpecs.lengthM
    IN  (state.swatchType = "INDIVIDUAL" /\ e # null /\ k > 0) =>
          /\ e.rolls = Finite(CeilRatioOver(110 * e.areaM2.num, e.areaM2.den, k))
          /\ e.rolls.n >= CeilRatioOver(100 * e.areaM2.num, e.areaM2.den, k)
          /\ \A m \in VariantMasks :
               LET e2 == estimateProject([state EXCEPT !.wallMask = m])
               IN  RatLeq(e.areaM2.num, e.areaM2.den, e2.areaM2.num, e2.areaM2.den) =>
                     e2.rolls.kind = "int" /\ e2.rolls.n >= e.rolls.n
          /\ \A q \in Point, v \in Lengths :
               LET e2 == estimateProject([state EXCEPT !.calibration.p2 = q,
                                                       !.calibration.realWorldValueCm = v])
               IN  (e2 # null /\ RatLeq(e.areaM2.num, e.areaM2.den,
                                        e2.areaM2.num, e2.areaM2.den)) =>
                     e2.rolls.kind = "int" /\ e2.rolls.n >= e.rolls.n

\* An individual estimate where the 10% buffer costs a roll.
C10_Witness ==
    LET e == estimateProject(state)
        k == state.individualRollSpecs.widthCm * state.individualRollSpecs.lengthM
    IN  /\ state.swatchType = "INDIVIDUAL"
        /\ e # null
        /\ k > 0
        /\ e.rolls.n >= 2
        /\ e.rolls.n > CeilRatioOver(100 * e.areaM2.num, e.areaM2.den, k)

\* The points of s in reverse order.
Reverse(s) == [i \in 1..Len(s) |-> s[Len(s) + 1 - i]]

\* The cyclic rotation of s that starts at its point k + 1.
Rotate(s, k) == [i \in 1..Len(s) |-> s[((i - 1 + k) % Len(s)) + 1]]

\* C11: for every wallMask of 3 or more points the shoelace area (absolute
\* value of the signed sum over the closed polygon, halved) is the same for
\* the reversed order, whose signed sum has the opposite sign, and for every
\* cyclic rotation; for the unit square it is 1.
C11_ShoelaceSymmetry ==
    /\ Len(wallMask) >= 3 =>
          /\ areaNormalized(Reverse(wallMask)) = areaNormalized(wallMask)
          /\ shoelaceSum(Reverse(wallMask), 1) = -shoelaceSum(wallMask, 1)
          /\ \A k \in 1..(Len(wallMask) - 1) :
                areaNormalized(Rotate(wallMask, k)) = areaNormalized(wallMask)
    /\ wallMask = UnitSquare =>
          areaNormalized(wallMask).num = areaNormalized(wallMask).den

\* The unit square is the wall polygon and an estimate is shown for it.
C11_Witness ==
    /\ wallMask = UnitSquare
    /\ estimateProject(state) # null

\* C12: whenever an estimate is produced, rollsRequired is an integer, for
\* both product types and every value of rollWidthCm, widthCm and lengthM the
\* inputs hold (0 included): never an infinity or NaN.
C12_RollsInteger ==
    LET e == estimateProject(state)
    IN  e # null => e.rolls.kind = "int"

\* Messages the catch block of handleRender can show.
ErrorMessages ==
    {KeyResetMessage, "API Key is missing.", "No image data returned from AI."}
      \cup UpstreamErrors

\* C13: the handling of a failed compositing call (a generic error, a response
\* without image data, a missing or a rejected API key) sets errorMessage,
\* clears isRendering and leaves the calibration, wallMask, swatchType, both
\* product specifications and the mode as they were in the state it acts on.
C13_FailureKeepsGeometry ==
    [][\A i \in 1..MaxRequests, upstream \in Upstream :
         renderRejected(i, upstream) =>
           /\ state'.errorMessage \in ErrorMessages
           /\ state'.errorMessage # NULL
           /\ state'.isRendering = FALSE
           /\ state'.calibration = calibration
           /\ state'.wallMask = wallMask
           /\ state'.swatchType = state.swatchType
           /\ state'.panoramaSpecs = state.panoramaSpecs
           /\ state'.individualRollSpecs = state.individualRollSpecs
           /\ mode' = mode
      ]_vars

\* A response without image data has been handled after the product type was
\* changed to PANORAMA: the segment, the polygon, the new product
\* type and the tool are still there.
C13_Witness ==
    /\ state.errorMessage = "No image data returned from AI."
    /\ ~state.isRendering
    /\ calibration.p2 # null /\ calibration.realWorldValueCm = 2100
    /\ Len(wallMask) = 3
    /\ state.swatchType = "PANORAMA"
    /\ mode = "SELECT_WALL"

\* C14: the handling of a call that failed with "Requested entity was not
\* found" leaves hasApiKey false; a render request is issued only while
\* hasApiKey is true; and from then until the next request (the key reset
\* message stands) hasApiKey becomes true again only when openSelectKey of
\* handleOpenKeyDialog returns, whenever checkApiKey gets its answer.
C14_KeyResetBlocksRender ==
    [][/\ \A i \in 1..MaxRequests, upstream \in Upstream :
            (renderRejected(i, upstream)
               /\ settlement(i, upstream).message = "KEY_RESET_REQUIRED")
              => ~hasApiKey' /\ state'.errorMessage = KeyResetMessage
       /\ handleRender => hasApiKey
       /\ (state.errorMessage = KeyResetMessage /\ ~hasApiKey /\ hasApiKey')
            => openSelectKeyResolves
      ]_vars

\* C15: a compositing request is issued only in a state where roomImage and
\* swatchImage are non-null and no request is in flight (isRendering false);
\* at most one request is outstanding in any state, and isRendering is true
\* exactly while one is.
C15_OneRequestAtATime ==
    [][/\ handleRender =>
            /\ state.roomImage # NULL /\ state.swatchImage # NULL
            /\ ~state.isRendering
            /\ requests = <<>>
            /\ requests' = <<[roomImage |-> state.roomImage,
                              swatchImage |-> state.swatchImage,
                              apiKey |-> requests'[1].apiKey]>>
       /\ Len(requests') <= 1
       /\ state'.isRendering <=> requests' # <<>>
      ]_vars

\* A second request is in flight after the first one was answered with an
\* image.
C15_Witness ==
    /\ Len(requests) = 1
    /\ state.isRendering
    /\ state.renderedResult # NULL

\* C17: a completed upload clears renderedResult, and after every step a
\* non-null renderedResult is the answer to a request built from the
\* roomImage and swatchImage the state holds, also when an upload completed
\* while the request was in flight.
C17_ResultMatchesImages ==
    [][/\ readerOnload => state'.renderedResult = NULL
       /\ state'.renderedResult # NULL =>
            state'.renderedResult = dataUrl(state'.roomImage, state'.swatchImage)
      ]_vars

\* C16: when CALIBRATE mode is entered again over a half-completed segment
\* (p1 set, p2 null, the mode had been toggled off), the pointer-down that
\* follows, at any point c, starts a fresh segment (p1 = c, p2 = null) and does
\* not pair the old p1 with c; and every toggle and click leaves a mode and a
\* calibration of the declared types.
C16_ReentryStartsFresh ==
    [][/\ (calibrationButton /\ mode # "CALIBRATE"
             /\ calibration.p1 # null /\ calibration.p2 = null) =>
            /\ mode' = "CALIBRATE"
            /\ \A c \in ClickPoints :
                 LET next == calibrationAfterClick(state'.calibration, c)
                 IN  next.p1 = c /\ next.p2 = null
       /\ mode' \in ToolMode
       /\ state'.calibration.p1 \in Point \cup {null}
       /\ state'.calibration.p2 \in Point \cup {null}
      ]_vars

\* C18 as stated: while isRendering is true errorMessage is null; every
\* request awaited ends with isRendering false; and in the state where it ends
\* exactly one outcome stands recorded, a renderedResult or an errorMessage.
C18_Original ==
    /\ [](state.isRendering => state.errorMessage = NULL)
    /\ [][(state.isRendering /\ ~state'.isRendering) =>
            (state'.renderedResult # NULL) # (state'.errorMessage # NULL)
        ]_vars
    /\ (requests # <<>>) ~> (requests = <<>> /\ ~state.isRendering)

\* C18 amended: while isRendering is true errorMessage is null; every request
\* awaited ends with isRendering false; isRendering is cleared only by the
\* handling of a settled request, which on success stores the returned image
\* and leaves errorMessage null, and on failure (no image data and a missing
\* API key included) stores a message and leaves renderedResult as it was,
\* which may be the result of an earlier request.
C18_RenderEnds ==
    /\ [](state.isRendering => state.errorMessage = NULL)
    /\ [][/\ \A i \in 1..MaxRequests, upstream \in Upstream :
                /\ renderFulfilled(i, upstream) =>
                     /\ ~state'.isRendering
                     /\ state'.renderedResult = dataUrl(requests[i].roomImage,
                                                       requests[i].swatchImage)
                     /\ state'.errorMessage = NULL
                /\ renderRejected(i, upstream) =>
                     /\ ~state'.isRendering
                     /\ state'.errorMessage \in ErrorMessages
                     /\ state'.errorMessage # NULL
                     /\ state'.renderedResult = state.renderedResult
           /\ (state.isRendering /\ ~state'.isRendering) =>
                (handleRenderThen \/ handleRenderCatch)
        ]_vars
    /\ (requests # <<>>) ~> (requests = <<>> /\ ~state.isRendering)

\* A request made while an earlier result was shown has failed for a missing
\* API key: the message stands next to the earlier result.
C18_Witness ==
    /\ ~state.isRendering
    /\ state.errorMessage = "API Key is missing."
    /\ state.renderedResult # NULL

====
